---- MODULE Spec2Model ----
(***************************************************************************)
(* One run of scripts/test-jwt.py (the strict validate script) or of       *)
(* scripts/test-jwt-full.py (generate and/or validate).                    *)
(*                                                                         *)
(* A run reads its configuration from the environment, looks at sys.argv,  *)
(* possibly generates a token, calls validate_token once at most, reports  *)
(* and exits.  The wall clock advances between the statements of a run.    *)
(*                                                                         *)
(* jwt.encode / jwt.decode are PyJWT's.  They are modelled by their        *)
(* documented behaviour for HS256: encode turns datetime claims into whole *)
(* epoch seconds and signs; decode checks structure and signature first,   *)
(* then exp, then iss, then aud, raising DecodeError,                      *)
(* InvalidSignatureError, ExpiredSignatureError, InvalidIssuerError or     *)
(* InvalidAudienceError.  The MAC is ideal: a signature verifies only for  *)
(* the payload and the key it was made with.                               *)
(***************************************************************************)
EXTENDS Integers, Sequences, FiniteSets, TLC

(***************************************************************************)
(* Bounds of the model.                                                    *)
(***************************************************************************)
\* clock ticks per second: the clock is finer than the token's timestamps
TicksPerSecond == 2
\* the clock advances at most this many ticks during one run
MaxTicks == 2
\* the run starts at a clock value in 0 .. MaxStart ticks after StartBase
MaxStart == 2
\* the exp claim of a token given on the command line is 0 .. MaxExp seconds
MaxExp == 2

(***************************************************************************)
(* Program constants.                                                      *)
(***************************************************************************)
\* timedelta(hours=1), in seconds
HourSeconds == 3600
\* the run starts one second after the epoch of the model, so that a token
\* given on the command line can expire before, at or after the start
StartBase == TicksPerSecond

DEFAULT_SECRET == "your-jwt-secret-key-min-32-characters-long"
DEFAULT_ISSUER == "saas-scaffolding"
DEFAULT_AUDIENCE == "microservices"
GENERATE_FLAG == "--generate"

Secrets == {DEFAULT_SECRET, "secret-A", "secret-B"}
Issuers == {DEFAULT_ISSUER, "other-issuer"}
Audiences == {DEFAULT_AUDIENCE, "other-audience"}

(***************************************************************************)
(* Time.  A datetime is a number of clock ticks since the epoch; a token   *)
(* timestamp is a number of whole seconds since the epoch.                 *)
(***************************************************************************)
\* timegm(dt.utctimetuple()): the sub-second part is dropped
EpochSeconds(dt) == dt \div TicksPerSecond

\* timedelta(hours=1) as a datetime difference
Hour == HourSeconds * TicksPerSecond

(***************************************************************************)
(* Claims and tokens.                                                      *)
(***************************************************************************)
\* the permissions list of generate_test_token
TEST_PERMISSIONS ==
    << [resource |-> "organization", action |-> "read"],
       [resource |-> "organization", action |-> "update"],
       [resource |-> "users", action |-> "read"],
       [resource |-> "users", action |-> "create"] >>

\* what a signed payload may carry under 'permissions': nothing, a list of
\* resource/action objects, or a value that is no list of objects
PermissionValues ==
    { [shape |-> "absent", items |-> << >>],
      [shape |-> "list", items |-> TEST_PERMISSIONS],
      [shape |-> "scalar", items |-> << >>] }

\* the payload dict of generate_test_token, iat and exp still datetimes
TestPayload(iss, aud, iat, exp) ==
    [ userId |-> "test-user-id-123",
      email |-> "test@example.com",
      organizationId |-> "test-org-id-456",
      organizationSlug |-> "test-org",
      role |-> "owner",
      permissions |-> [shape |-> "list", items |-> TEST_PERMISSIONS],
      iss |-> iss,
      aud |-> aud,
      iat |-> iat,
      exp |-> exp ]

\* HMAC-SHA256 of the signing input under key
Sign(payload, key) == << key, payload >>

\* jwt.encode(payload, key, algorithm='HS256'): datetime claims become epoch
\* seconds, then header.payload is signed
jwt_encode(payload, key) ==
    LET claims == [payload EXCEPT !.iat = EpochSeconds(payload.iat),
                                  !.exp = EpochSeconds(payload.exp)]
    IN  [ text |-> "jwt", jwt |-> << claims, Sign(claims, key) >> ]

\* a command-line argument that is no compact JWT
PlainArg(s) == [ text |-> s, jwt |-> << >> ]

IsJwt(arg) == arg.jwt # << >>
ClaimsOf(arg) == arg.jwt[1]
SignatureOf(arg) == arg.jwt[2]

\* the signature of the token verifies under key
Verifies(arg, key) == IsJwt(arg) /\ SignatureOf(arg) = Sign(ClaimsOf(arg), key)

(***************************************************************************)
(* jwt.decode and the exceptions it raises.                                *)
(***************************************************************************)
\* the exception classes of PyJWT that decode raises here, each with its
\* base class
BaseClass ==
    [ InvalidTokenError |-> "Exception",
      DecodeError |-> "InvalidTokenError",
      InvalidSignatureError |-> "DecodeError",
      ExpiredSignatureError |-> "InvalidTokenError",
      InvalidIssuerError |-> "InvalidTokenError",
      InvalidAudienceError |-> "InvalidTokenError" ]

RECURSIVE IsInstance(_, _)
\* an exception of class cls is caught by `except handled`
IsInstance(cls, handled) ==
    IF cls = handled THEN TRUE
    ELSE IF cls \in DOMAIN BaseClass THEN IsInstance(BaseClass[cls], handled)
    ELSE FALSE

Returned(claims) == [ payload |-> << claims >>, exc |-> "" ]
Raised(cls) == [ payload |-> << >>, exc |-> cls ]

\* mutant: a token is still accepted during the second it expires in
jwt_decode_late_expiry(token, key, issuer, audience, t) ==
    IF ~IsJwt(token) THEN Raised("DecodeError")
    ELSE IF ~Verifies(token, key) THEN Raised("InvalidSignatureError")
    ELSE IF ClaimsOf(token).exp * TicksPerSecond + TicksPerSecond <= t
         THEN Raised("ExpiredSignatureError")
    ELSE IF ClaimsOf(token).iss # issuer THEN Raised("InvalidIssuerError")
    ELSE IF ClaimsOf(token).aud # audience THEN Raised("InvalidAudienceError")
    ELSE Returned(ClaimsOf(token))

\* mutant: the issuer is checked before the expiration
jwt_decode_issuer_first(token, key, issuer, audience, t) ==
    IF ~IsJwt(token) THEN Raised("DecodeError")
    ELSE IF ~Verifies(token, key) THEN Raised("InvalidSignatureError")
    ELSE IF ClaimsOf(token).iss # issuer THEN Raised("InvalidIssuerError")
    ELSE IF ClaimsOf(token).exp * TicksPerSecond <= t
         THEN Raised("ExpiredSignatureError")
    ELSE IF ClaimsOf(token).aud # audience THEN Raised("InvalidAudienceError")
    ELSE Returned(ClaimsOf(token))

\* jwt.decode(token, key, algorithms=['HS256'], issuer=.., audience=..) at
\* clock value t: the first check that fails raises
jwt_decode(token, key, issuer, audience, t) ==
    IF ~IsJwt(token) THEN Raised("DecodeError")
    ELSE IF ~Verifies(token, key) THEN Raised("InvalidSignatureError")
    ELSE IF ClaimsOf(token).exp * TicksPerSecond <= t
         THEN Raised("ExpiredSignatureError")
    ELSE IF ClaimsOf(token).iss # issuer THEN Raised("InvalidIssuerError")
    ELSE IF ClaimsOf(token).aud # audience THEN Raised("InvalidAudienceError")
    ELSE Returned(ClaimsOf(token))

(***************************************************************************)
(* validate_token, the same function in both scripts.                      *)
(***************************************************************************)
\* mutant: the InvalidTokenError clause comes first
Handlers_CatchAllFirst ==
    << [ catches |-> "InvalidTokenError", kind |-> "InvalidToken" ],
       [ catches |-> "ExpiredSignatureError", kind |-> "Expired" ],
       [ catches |-> "InvalidIssuerError", kind |-> "InvalidIssuer" ],
       [ catches |-> "InvalidAudienceError", kind |-> "InvalidAudience" ] >>

\* mutant: no clause for InvalidAudienceError
Handlers_NoAudienceClause ==
    << [ catches |-> "ExpiredSignatureError", kind |-> "Expired" ],
       [ catches |-> "InvalidIssuerError", kind |-> "InvalidIssuer" ],
       [ catches |-> "InvalidTokenError", kind |-> "InvalidToken" ] >>

\* the except clauses of validate_token in source order, each with the
\* failure it reports
Handlers ==
    << [ catches |-> "ExpiredSignatureError", kind |-> "Expired" ],
       [ catches |-> "InvalidIssuerError", kind |-> "InvalidIssuer" ],
       [ catches |-> "InvalidAudienceError", kind |-> "InvalidAudience" ],
       [ catches |-> "InvalidTokenError", kind |-> "InvalidToken" ] >>

\* the first except clause, in order, that catches cls; "Uncaught" if none
Caught(handlers, cls) ==
    LET hits == { i \in 1..Len(handlers) : IsInstance(cls, handlers[i].catches) }
    IN  IF hits = {} THEN "Uncaught"
        ELSE handlers[CHOOSE i \in hits : \A j \in hits : i <= j].kind

\* mutant: the token is decoded without its signature being verified
validate_token_unverified(token, secret, issuer, audience, t) ==
    IF ~IsJwt(token) THEN [ payload |-> << >>, kind |-> "InvalidToken" ]
    ELSE LET signed == [ token EXCEPT !.jwt = << ClaimsOf(token),
                                                 Sign(ClaimsOf(token), secret) >> ]
             r == jwt_decode(signed, secret, issuer, audience, t)
         IN  IF r.exc = "" THEN [ payload |-> r.payload, kind |-> "" ]
             ELSE [ payload |-> << >>, kind |-> Caught(Handlers, r.exc) ]

\* validate_token(token) with the module globals made explicit: the payload
\* (<< >> stands for None) and the failure reported ("" when none)
validate_token(token, secret, issuer, audience, t) ==
    LET r == jwt_decode(token, secret, issuer, audience, t)
    IN  IF r.exc = "" THEN [ payload |-> r.payload, kind |-> "" ]
        ELSE [ payload |-> << >>, kind |-> Caught(Handlers, r.exc) ]

\* the value None
None == << >>
\* `if payload:` -- None and the empty dict are falsy; a decoded payload
\* always carries iss and aud, so it is never the empty dict
Truthy(payload) == payload # None

(***************************************************************************)
(* The rest of main: what is shown after a successful validation.          *)
(***************************************************************************)
\* "Extracted Information" and "Permissions": len(payload.get('permissions',
\* [])) and perm.get(..) for each item run without an exception unless the
\* value under 'permissions' is no list of objects (a number, null, a list
\* of strings).  The exp shown afterwards is within datetime's range here.
Displays(claims) == claims.permissions.shape # "scalar"

(***************************************************************************)
(* The command lines and environments of the model.                        *)
(***************************************************************************)
\* the payloads an issuer may sign: iat and exp are datetimes on a whole
\* second
ArgPayloads ==
    { [ TestPayload(iss, aud, 0, exp * TicksPerSecond)
          EXCEPT !.permissions = perms ] :
        iss \in Issuers, aud \in Audiences, exp \in 0..MaxExp,
        perms \in PermissionValues }

\* tokens signed by some holder of some key
SignedTokens == { jwt_encode(p, k) : p \in ArgPayloads, k \in Secrets }

\* a signed token whose exp claim was raised by one second afterwards: the
\* signature is still that of the claims as signed
Tampered(tok) ==
    [ tok EXCEPT !.jwt = << [ ClaimsOf(tok) EXCEPT !.exp = @ + 1 ],
                            SignatureOf(tok) >> ]

TamperedTokens ==
    { Tampered(tok) :
        tok \in { t \in SignedTokens : ClaimsOf(t).permissions.shape = "absent" } }

FirstArgs ==
    SignedTokens \cup TamperedTokens
        \cup { PlainArg(GENERATE_FLAG), PlainArg("not-a-jwt") }

\* sys.argv[1:]: nothing, one argument, or one argument and a second one
CommandLines ==
    { << >> } \cup { << a >> : a \in FirstArgs }
        \cup { << a, PlainArg(GENERATE_FLAG) >> :
                 a \in { PlainArg(GENERATE_FLAG), PlainArg("not-a-jwt") } }

(***************************************************************************)
(* State.                                                                  *)
(***************************************************************************)
VARIABLES
    script,         \* "strict" (test-jwt.py) or "full" (test-jwt-full.py)
    JWT_SECRET,     \* module globals, read from the environment at import
    JWT_ISSUER,
    JWT_AUDIENCE,
    argv,           \* sys.argv[1:]
    now,            \* the wall clock, in ticks
    ticks,          \* how far the clock advanced during the run
    pc,             \* the statement of main the run is at
    mode,           \* "" until main chose: "generate" or "validate"
    draft,          \* generate_test_token: the datetimes read so far
    token,          \* the token main holds, None before
    payload,        \* what validate_token returned, None before
    vtime,          \* the clock when jwt.decode ran, -1 before
    out,            \* what was written to standard output, as tags
    exit_status     \* the exit status, -1 while the run goes on

vars == << script, JWT_SECRET, JWT_ISSUER, JWT_AUDIENCE, argv, now, ticks, pc,
           mode, draft, token, payload, vtime, out, exit_status >>

config == << script, JWT_SECRET, JWT_ISSUER, JWT_AUDIENCE, argv >>

Init ==
    /\ script \in { "strict", "full" }
    /\ JWT_SECRET \in Secrets
    /\ JWT_ISSUER \in Issuers
    /\ JWT_AUDIENCE \in Audiences
    /\ argv \in CommandLines
    /\ now \in StartBase .. (StartBase + MaxStart)
    /\ ticks = 0
    /\ pc = "secret"
    /\ mode = ""
    /\ draft = << >>
    /\ token = None
    /\ payload = None
    /\ vtime = -1
    /\ out = << >>
    /\ exit_status = -1

\* sys.exit(code), or main returning (code 0)
Exit(code, lines) ==
    /\ out' = out \o lines
    /\ exit_status' = code
    /\ pc' = "done"

\* the wall clock advances while the run goes on
Tick ==
    /\ pc # "done"
    /\ ticks < MaxTicks
    /\ now' = now + 1
    /\ ticks' = ticks + 1
    /\ UNCHANGED << config, pc, mode, draft, token, payload, vtime, out,
                    exit_status >>

(***************************************************************************)
(* main of test-jwt.py.                                                    *)
(***************************************************************************)
\* mutant: the default secret only draws the warning
StrictCheckSecret_WarnOnly ==
    /\ script = "strict" /\ pc = "secret"
    /\ out' = IF JWT_SECRET = DEFAULT_SECRET
              THEN out \o << "SecretWarning" >> ELSE out
    /\ pc' = "args"
    /\ UNCHANGED << config, now, ticks, mode, draft, token, payload, vtime,
                    exit_status >>

\* "Check if JWT_SECRET is set": with the default secret the run ends here
StrictCheckSecret ==
    /\ script = "strict" /\ pc = "secret"
    /\ IF JWT_SECRET = DEFAULT_SECRET
       THEN /\ Exit(1, << "SecretWarning" >>)
            /\ UNCHANGED << mode, token >>
       ELSE /\ pc' = "args"
            /\ UNCHANGED << mode, token, out, exit_status >>
    /\ UNCHANGED << config, now, ticks, draft, payload, vtime >>

\* "Get token from command line argument"
StrictCheckArgs ==
    /\ script = "strict" /\ pc = "args"
    /\ IF Len(argv) < 1
       THEN /\ Exit(1, << "Usage" >>)
            /\ UNCHANGED << mode, token >>
       ELSE /\ token' = argv[1]
            /\ mode' = "validate"
            /\ pc' = "validate"
            /\ UNCHANGED << out, exit_status >>
    /\ UNCHANGED << config, now, ticks, draft, payload, vtime >>

(***************************************************************************)
(* main of test-jwt-full.py.                                               *)
(***************************************************************************)
\* "Check if JWT_SECRET is set": with the default secret a warning, no exit
FullCheckSecret ==
    /\ script = "full" /\ pc = "secret"
    /\ out' = IF JWT_SECRET = DEFAULT_SECRET
              THEN out \o << "SecretWarning" >> ELSE out
    /\ pc' = "args"
    /\ UNCHANGED << config, now, ticks, mode, draft, token, payload, vtime,
                    exit_status >>

\* mutant: without arguments the script generates a token
FullCheckArgs_GenerateWithoutArgs ==
    /\ script = "full" /\ pc = "args"
    /\ IF Len(argv) < 1 \/ argv[1].text = GENERATE_FLAG
       THEN /\ mode' = "generate"
            /\ pc' = "gen_iat"
            /\ UNCHANGED << token, out, exit_status >>
       ELSE /\ token' = argv[1]
            /\ mode' = "validate"
            /\ pc' = "validate"
            /\ UNCHANGED << out, exit_status >>
    /\ UNCHANGED << config, now, ticks, draft, payload, vtime >>

\* "Check command line arguments"
FullCheckArgs ==
    /\ script = "full" /\ pc = "args"
    /\ IF Len(argv) > 0 /\ argv[1].text = GENERATE_FLAG
       THEN /\ mode' = "generate"
            /\ pc' = "gen_iat"
            /\ UNCHANGED << token, out, exit_status >>
       ELSE IF Len(argv) < 1
       THEN /\ Exit(1, << "Usage" >>)
            /\ UNCHANGED << mode, token >>
       ELSE /\ token' = argv[1]
            /\ mode' = "validate"
            /\ pc' = "validate"
            /\ UNCHANGED << out, exit_status >>
    /\ UNCHANGED << config, now, ticks, draft, payload, vtime >>

(***************************************************************************)
(* generate_test_token: the payload literal reads the clock twice.         *)
(***************************************************************************)
\* 'iat': datetime.utcnow()
GenerateIat ==
    /\ pc = "gen_iat"
    /\ draft' = << now >>
    /\ pc' = "gen_exp"
    /\ UNCHANGED << config, now, ticks, mode, token, payload, vtime, out,
                    exit_status >>

\* 'exp': datetime.utcnow() + timedelta(hours=1)
GenerateExp ==
    /\ pc = "gen_exp"
    /\ draft' = draft \o << now + Hour >>
    /\ pc' = "gen_encode"
    /\ UNCHANGED << config, now, ticks, mode, token, payload, vtime, out,
                    exit_status >>

\* mutant: the token is signed with the default secret, not the configured one
generate_test_token_default_secret(secret, issuer, audience, iat, exp) ==
    jwt_encode(TestPayload(issuer, audience, iat, exp), DEFAULT_SECRET)

\* the token generate_test_token returns for the datetimes it read
generate_test_token(secret, issuer, audience, iat, exp) ==
    jwt_encode(TestPayload(issuer, audience, iat, exp), secret)

\* token = jwt.encode(payload, JWT_SECRET, algorithm='HS256'); return token
GenerateEncode ==
    /\ pc = "gen_encode"
    /\ token' = generate_test_token(JWT_SECRET, JWT_ISSUER, JWT_AUDIENCE,
                                    draft[1], draft[2])
    /\ out' = out \o << "Generated" >>
    /\ pc' = "validate"
    /\ UNCHANGED << config, now, ticks, mode, draft, payload, vtime,
                    exit_status >>

(***************************************************************************)
(* payload = validate_token(token), in both scripts.                       *)
(***************************************************************************)
Validate ==
    /\ pc = "validate"
    /\ LET r == validate_token(token, JWT_SECRET, JWT_ISSUER, JWT_AUDIENCE, now)
       IN  /\ payload' = r.payload
           /\ out' = IF r.kind = "" THEN out ELSE out \o << r.kind >>
    /\ vtime' = now
    /\ pc' = "report"
    /\ UNCHANGED << config, now, ticks, mode, draft, token, exit_status >>

(***************************************************************************)
(* `if payload: ... else: ... sys.exit(1)`.                                *)
(***************************************************************************)
\* what the validate branch of either main does with the payload: the exit
\* status and the lines written.  An exception while the claims are shown
\* ends the run with a traceback and status 1.
ReportValidated(p) ==
    IF Truthy(p)
    THEN IF Displays(p[1])
         THEN [ code |-> 0, lines |-> << "Valid", "HelloWorld" >> ]
         ELSE [ code |-> 1, lines |-> << "Valid", "Traceback" >> ]
    ELSE [ code |-> 1, lines |-> << "Failed" >> ]

\* what the --generate branch of test-jwt-full.py does with the payload: it
\* shows it with json.dumps alone
ReportGenerated(p) ==
    IF Truthy(p)
    THEN [ code |-> 0, lines |-> << "Valid", "HelloWorld" >> ]
    ELSE [ code |-> 1, lines |-> << "Failed" >> ]

StrictReport ==
    /\ script = "strict" /\ pc = "report"
    /\ Exit(ReportValidated(payload).code, ReportValidated(payload).lines)
    /\ UNCHANGED << config, now, ticks, mode, draft, token, payload, vtime >>

FullReport ==
    /\ script = "full" /\ pc = "report"
    /\ LET r == IF mode = "generate" THEN ReportGenerated(payload)
                ELSE ReportValidated(payload)
       IN  Exit(r.code, r.lines)
    /\ UNCHANGED << config, now, ticks, mode, draft, token, payload, vtime >>

Next ==
    \/ Tick
    \/ StrictCheckSecret
    \/ StrictCheckArgs
    \/ FullCheckSecret
    \/ FullCheckArgs
    \/ GenerateIat
    \/ GenerateExp
    \/ GenerateEncode
    \/ Validate
    \/ StrictReport
    \/ FullReport

Spec == Init /\ [][Next]_vars

(***************************************************************************)
(* Vocabulary of the properties.                                           *)
(***************************************************************************)
FailureKinds == { "Expired", "InvalidIssuer", "InvalidAudience", "InvalidToken" }

\* the failure kinds validate_token reported on standard output
Reported == { out[i] : i \in DOMAIN out } \cap FailureKinds

Written(tag) == \E i \in DOMAIN out : out[i] = tag

\* validate_token has run
Validated == vtime # -1

Done == pc = "done"

\* the four conditions, at the time jwt.decode ran
SignatureOk == Verifies(token, JWT_SECRET)
NotExpired == IsJwt(token) /\ vtime < ClaimsOf(token).exp * TicksPerSecond
ExpiryPassed == IsJwt(token) /\ ClaimsOf(token).exp * TicksPerSecond < vtime
IssuerOk == IsJwt(token) /\ ClaimsOf(token).iss = JWT_ISSUER
AudienceOk == IsJwt(token) /\ ClaimsOf(token).aud = JWT_AUDIENCE

\* the token was signed with a key other than the configured secret
SignedWithOtherSecret ==
    \E k \in Secrets \ { JWT_SECRET } : Verifies(token, k)

(***************************************************************************)
(* C1.  validate_token returns a payload only if the signature verifies    *)
(* under the configured secret, the issuer and the audience equal the      *)
(* expected ones and the clock is strictly before exp; whenever one of the *)
(* four fails (the clock equal to exp included) it returns None and        *)
(* reports a failure.                                                      *)
(***************************************************************************)
C1_ValidOnlyIfAllFour ==
    Validated =>
        LET allFour == SignatureOk /\ IssuerOk /\ AudienceOk /\ NotExpired
        IN  /\ payload # None => allFour
            /\ ~allFour => payload = None /\ Reported # {}

\* a token accepted on the last tick before it expires
C1_Witness ==
    /\ Validated /\ payload # None /\ mode = "validate"
    /\ vtime + 1 = ClaimsOf(token).exp * TicksPerSecond

(***************************************************************************)
(* C2.  Round trip: a token made by jwt.encode from claims C with secret S *)
(* and validated with S, C's issuer and C's audience before C's exp yields *)
(* C again (timestamps as epoch seconds); the --generate run of            *)
(* test-jwt-full.py always ends in its success branch with status 0.       *)
(***************************************************************************)
\* the claims of the generated token, from the datetimes generate_test_token
\* read
GeneratedClaims ==
    [ TestPayload(JWT_ISSUER, JWT_AUDIENCE, 0, 0)
        EXCEPT !.iat = EpochSeconds(draft[1]), !.exp = EpochSeconds(draft[2]) ]

C3_ExpiredRegardless ==
    (Validated /\ ExpiryPassed) => Reported = { "Expired" }

(***************************************************************************)
(* C3, amended.  A token whose exp is in the past and whose signature      *)
(* verifies under the configured secret is reported Expired, whatever its  *)
(* issuer and audience; if its signature does not verify it is reported    *)
(* InvalidToken.                                                           *)
(***************************************************************************)
C3_ExpiredWhenSigned ==
    (Validated /\ ExpiryPassed) =>
        /\ payload = None
        /\ Reported = IF SignatureOk THEN { "Expired" } ELSE { "InvalidToken" }

\* an expired, well signed token with the wrong issuer and the wrong audience
C3_Witness ==
    /\ Validated /\ ExpiryPassed /\ SignatureOk
    /\ ~IssuerOk /\ ~AudienceOk
    /\ Reported = { "Expired" }

(***************************************************************************)
(* C4.  The checks run in the order signature, expiration, issuer,         *)
(* audience; exactly one failure is reported, that of the first check that *)
(* fails, and the InvalidTokenError clause takes none of the other three.  *)
(***************************************************************************)
FirstFailure ==
    IF ~SignatureOk THEN { "InvalidToken" }
    ELSE IF ~NotExpired THEN { "Expired" }
    ELSE IF ~IssuerOk THEN { "InvalidIssuer" }
    ELSE IF ~AudienceOk THEN { "InvalidAudience" }
    ELSE { }

C4_FirstFailingCheck ==
    Validated =>
        /\ Reported = FirstFailure
        /\ Cardinality(Reported) <= 1
        /\ Reported = {} <=> payload # None

\* a token that fails all four checks at once
C4_Witness ==
    /\ Validated /\ IsJwt(token) /\ ~SignatureOk
    /\ ~NotExpired /\ ~IssuerOk /\ ~AudienceOk
    /\ Reported = { "InvalidToken" }

(***************************************************************************)
(* C5.  A token signed with a secret other than the configured one is      *)
(* reported InvalidToken, whatever its issuer, audience and exp.           *)
(***************************************************************************)
C5_WrongSecret ==
    (Validated /\ SignedWithOtherSecret) =>
        payload = None /\ Reported = { "InvalidToken" }

\* such a token, with everything else in order
C5_Witness ==
    /\ Validated /\ SignedWithOtherSecret
    /\ IssuerOk /\ AudienceOk /\ NotExpired
    /\ Reported = { "InvalidToken" }

(***************************************************************************)
(* C6.  A well signed, unexpired token with the wrong issuer and the right *)
(* audience is reported InvalidIssuer; with the right issuer and the wrong *)
(* audience it is reported InvalidAudience; neither is InvalidToken.       *)
(***************************************************************************)
C6_IdentityMismatch ==
    (Validated /\ SignatureOk /\ NotExpired) =>
        /\ (~IssuerOk /\ AudienceOk) => Reported = { "InvalidIssuer" }
        /\ (IssuerOk /\ ~AudienceOk) => Reported = { "InvalidAudience" }

\* the audience alone is wrong
C6_Witness ==
    /\ Validated /\ SignatureOk /\ NotExpired
    /\ IssuerOk /\ ~AudienceOk
    /\ Reported = { "InvalidAudience" }

(***************************************************************************)
(* C7.  A run ends with status 0 exactly if a validation succeeded; it     *)
(* ends with a non-zero status without a token argument, with the default  *)
(* secret in test-jwt.py and when validation fails; validate_token runs    *)
(* once at most and no failing run writes the success line.                *)
(***************************************************************************)
C7_ExitStatus ==
    Done =>
        /\ exit_status = 0 <=> (Validated /\ payload # None)
        /\ exit_status \in { 0, 1 }
        /\ (Len(argv) = 0 \/ Reported # {}) => exit_status = 1
        /\ (script = "strict" /\ JWT_SECRET = DEFAULT_SECRET) => exit_status = 1
        /\ Written("HelloWorld") <=> exit_status = 0

\* the run got to look at its arguments and beyond
PastArguments ==
    /\ pc \notin { "secret", "args" }
    /\ ~(script = "strict" /\ JWT_SECRET = DEFAULT_SECRET)

GenerateRequested ==
    script = "full" /\ Len(argv) > 0 /\ argv[1].text = GENERATE_FLAG

C9_ExactlyOneHour ==
    (mode = "generate" /\ token # None) =>
        /\ ClaimsOf(token).iat = EpochSeconds(draft[1])
        /\ ClaimsOf(token).exp - ClaimsOf(token).iat = HourSeconds

(***************************************************************************)
(* C10.  With the default secret test-jwt.py ends with status 1 before it  *)
(* looks at its arguments and without validating: also without arguments   *)
(* it writes the secret warning, not the usage text.  test-jwt-full.py     *)
(* writes the warning first and goes on to generate or validate with the   *)
(* default secret.                                                         *)
(***************************************************************************)
C10_DefaultSecret ==
    JWT_SECRET = DEFAULT_SECRET =>
        /\ script = "strict" =>
               /\ pc \in { "secret", "done" }
               /\ Done => /\ exit_status = 1
                          /\ out = << "SecretWarning" >>
                          /\ mode = "" /\ token = None /\ ~Validated
        /\ (script = "full" /\ pc # "secret") =>
               /\ out # << >> /\ out[1] = "SecretWarning"
               /\ (Done /\ Len(argv) > 0) => Validated
               /\ Validated =>
                      payload = validate_token(token, DEFAULT_SECRET, JWT_ISSUER,
                                               JWT_AUDIENCE, vtime).payload
               /\ (mode = "generate" /\ token # None) =>
                      Verifies(token, DEFAULT_SECRET)

\* test-jwt.py with the default secret and no arguments has ended
C10_Witness ==
    /\ Done /\ script = "strict" /\ JWT_SECRET = DEFAULT_SECRET
    /\ Len(argv) = 0
    /\ out = << "SecretWarning" >>

====
